---- MODULE Spec2Model ----
(***************************************************************************)
(* pulse: database change notifications relayed to websocket subscribers.  *)
(*                                                                         *)
(* The repository holds two revisions of the server package's Hub:         *)
(*   "server.go" (src/internal/server/server.go): the Hub selects over the *)
(*       register, unregister and broadcast channels and sends every       *)
(*       message to every client; no file under src/ sends on register or  *)
(*       unregister, so these two inputs are drawn from Conns;             *)
(*   "part_003" (src/unnamed/part_003): the Hub selects over broadcast     *)
(*       only, filters by table and id, and on a write failure closes the  *)
(*       connection and deletes it from the map inside the dispatch        *)
(*       goroutine; the websocket handlers of src/unnamed/part_001 insert  *)
(*       into the map directly.                                            *)
(* Both are modelled, and with them the revision before the Hub existed:   *)
(*   "part_002" (src/unnamed/part_002): NewServer starts Watch on the      *)
(*       channel and nothing that receives from it.                        *)
(* `build` says which one a behaviour runs.  The listener is service.Watch *)
(* of src/internal/database/database.go.                                   *)
(* Range loops are taken with per-iteration loop variables (Go >= 1.22).   *)
(***************************************************************************)
EXTENDS Integers, Sequences, FiniteSets, TLC

\* ---------------------------------------------------------------- bounds
MaxConns == 2
MaxObjs == 2
MaxNotifs == 2

Conns == 1..MaxConns
Objs == 1..MaxObjs
Builds == {"server.go", "part_003", "part_002"}

\* ------------------------------------------------------- notifications
Absent == "<absent>"
NotJSON == [json |-> FALSE, operation |-> Absent, table |-> Absent, id |-> Absent, data |-> Absent]

JSON(op, tb, id, dt) ==
    [json |-> TRUE, operation |-> op, table |-> tb, id |-> id, data |-> dt]

\* Payloads the notification stream can carry: what the pulse_watcher trigger
\* emits, and what any other NOTIFY pulse_watcher can put on the channel.
Payloads ==
    { JSON("insert", "orders", "42", "row"),
      JSON("update", "orders", "7", "row"),
      JSON("delete", "customers", Absent, "row"),
      NotJSON,
      JSON("truncate", "orders", Absent, Absent) }

ZeroString(f) == IF f = Absent THEN "" ELSE f
ZeroIface(f) == IF f = Absent THEN "nil" ELSE f

\* The row identity of a notification.  DBNotification as database.go declares
\* it has no such field, while the Hub of part_003 reads msg.ID: the field is
\* taken from the design (rowID: the identifier extracted from the row image,
\* left absent when the payload has none).
RowID(p) == ZeroString(p.id)

\* var dbNotification DBNotification: the zero value.
ZeroNotification == [Operation |-> "", Table |-> "", ID |-> "", Data |-> "nil"]

\* json.Unmarshal into a DBNotification: an error for a body that is not JSON,
\* the zero value for every field the body lacks, no check of any value.
UnmarshalFails(p) == ~p.json

Unmarshal(p) ==
    IF UnmarshalFails(p) THEN ZeroNotification
    ELSE [Operation |-> ZeroString(p.operation), Table |-> ZeroString(p.table),
          ID |-> RowID(p), Data |-> ZeroIface(p.data)]

\* ------------------------------------------------------------- filters
AllTables == [table |-> "", id |-> ""]
Filters ==
    { AllTables,
      [table |-> "orders", id |-> ""],
      [table |-> "orders", id |-> "42"] }

\* Mutants of the two filter checks: the table test inverted; an event
\* without row id let through a row filter.
TableOk_inverted(c, msg) == ~(c.table # "" /\ c.table = msg.Table)
IdOk_absentPasses(c, msg) == ~(c.id # "" /\ msg.ID # "" /\ c.id # msg.ID)

TableOk(c, msg) == ~(c.table # "" /\ c.table # msg.Table)
IdOk(c, msg) == ~(c.id # "" /\ c.id # msg.ID)

VARIABLES
    build,      \* which revision of the server package runs
    crashed,    \* the process ended: log.Fatalf, or a fatal error of the runtime
    lpc,        \* Watch: "acquire", "listen", "wait", "sleep", "send"
    pgConn,     \* Watch's dedicated connection: "none", "ok", "lost"
    produced,   \* payloads WaitForNotification has returned, in stream order
    lmsg,       \* Watch's dbNotification while it blocks on ch <- dbNotification
    hubRecv,    \* messages the Hub has received from broadcast, in order
    hubNoop,    \* the Hub's last input was an unregister of an absent key
    clients,    \* s.clients: connection -> client object, 0 when absent
    isClosing,  \* client.isClosing, per client object
    filter,     \* client.table and client.id, per client object
    tasks,      \* dispatch goroutines: [n, conn, obj, pc]
    hpc,        \* websocket handlers: "idle", "inserting", "open", "returned"
    hfilter,    \* the filter a handler builds from its path
    connState,  \* the websocket as the server holds it: "none", "open", "closed"
    attempts,   \* per connection, the messages (index in hubRecv) whose write began
    filtered    \* per connection, the messages a dispatch goroutine skipped by filter

vars == << build, crashed, lpc, pgConn, produced, lmsg, hubRecv, hubNoop,
           clients, isClosing, filter, tasks, hpc, hfilter, connState,
           attempts, filtered >>

listenerVars == << lpc, pgConn, produced, lmsg >>
hubVars == << hubRecv, hubNoop >>
registryVars == << clients, isClosing, filter >>
handlerVars == << hpc, hfilter >>
historyVars == << attempts, filtered >>

\* go NewServer.Hub(): the revisions whose NewServer starts a Hub.
HubRuns == build \in {"server.go", "part_003"}

Init ==
    /\ build \in Builds
    /\ crashed = FALSE
    /\ lpc = "acquire"
    /\ pgConn = "none"
    /\ produced = << >>
    /\ lmsg = ZeroNotification
    /\ hubRecv = << >>
    /\ hubNoop = FALSE
    /\ clients = [c \in Conns |-> 0]
    /\ isClosing = [o \in Objs |-> FALSE]
    /\ filter = [o \in Objs |-> AllTables]
    /\ tasks = {}
    /\ hpc = [c \in Conns |-> "idle"]
    /\ hfilter = [c \in Conns |-> AllTables]
    /\ connState = [c \in Conns |-> IF build = "server.go" THEN "open" ELSE "none"]
    /\ attempts = [c \in Conns |-> << >>]
    /\ filtered = [c \in Conns |-> {}]

\* ------------------------------------------------------------ listener
WatchAcquire ==
    /\ ~crashed /\ lpc = "acquire"
    /\ \/ /\ pgConn' = "ok" /\ lpc' = "listen" /\ UNCHANGED crashed
       \/ /\ crashed' = TRUE /\ UNCHANGED << pgConn, lpc >>
    /\ UNCHANGED << build, produced, lmsg, hubVars, registryVars, tasks,
                    handlerVars, connState, historyVars >>

WatchListen ==
    /\ ~crashed /\ lpc = "listen"
    /\ \/ /\ pgConn = "ok" /\ lpc' = "wait" /\ UNCHANGED crashed
       \/ /\ crashed' = TRUE /\ UNCHANGED lpc
    /\ UNCHANGED << build, pgConn, produced, lmsg, hubVars, registryVars, tasks,
                    handlerVars, connState, historyVars >>

\* Mutant: the `continue` after a failed Unmarshal is missing, the zero
\* notification is sent.
WatchWait_noContinue ==
    /\ ~crashed /\ lpc = "wait"
    /\ \/ /\ pgConn = "ok" /\ Len(produced) < MaxNotifs
          /\ \E p \in Payloads :
                /\ produced' = Append(produced, p)
                /\ lpc' = "send" /\ lmsg' = Unmarshal(p)
       \/ /\ pgConn = "lost"
          /\ lpc' = "sleep" /\ UNCHANGED << produced, lmsg >>
    /\ UNCHANGED << build, crashed, pgConn, hubVars, registryVars, tasks,
                    handlerVars, connState, historyVars >>

\* Mutant: a failed Unmarshal is handled as a failure of the connection, the
\* subscription is given up.
WatchWait_decodeErrorDrops ==
    /\ ~crashed /\ lpc = "wait"
    /\ \/ /\ pgConn = "ok" /\ Len(produced) < MaxNotifs
          /\ \E p \in Payloads :
                /\ produced' = Append(produced, p)
                /\ IF UnmarshalFails(p)
                     THEN lpc' = "sleep" /\ pgConn' = "lost" /\ UNCHANGED lmsg
                     ELSE lpc' = "send" /\ lmsg' = Unmarshal(p) /\ UNCHANGED pgConn
       \/ /\ pgConn = "lost"
          /\ lpc' = "sleep" /\ UNCHANGED << pgConn, produced, lmsg >>
    /\ UNCHANGED << build, crashed, hubVars, registryVars, tasks,
                    handlerVars, connState, historyVars >>

\* One pass of the loop body up to the send: WaitForNotification, Unmarshal.
WatchWait ==
    /\ ~crashed /\ lpc = "wait"
    /\ \/ /\ pgConn = "ok" /\ Len(produced) < MaxNotifs
          /\ \E p \in Payloads :
                /\ produced' = Append(produced, p)
                /\ IF UnmarshalFails(p)
                     THEN lpc' = "sleep" /\ UNCHANGED lmsg
                     ELSE lpc' = "send" /\ lmsg' = Unmarshal(p)
       \/ /\ pgConn = "lost"
          /\ lpc' = "sleep" /\ UNCHANGED << produced, lmsg >>
    /\ UNCHANGED << build, crashed, pgConn, hubVars, registryVars, tasks,
                    handlerVars, connState, historyVars >>

\* time.Sleep(1 * time.Second), continue.
WatchSleep ==
    /\ ~crashed /\ lpc = "sleep"
    /\ lpc' = "wait"
    /\ UNCHANGED << build, crashed, pgConn, produced, lmsg, hubVars, registryVars,
                    tasks, handlerVars, connState, historyVars >>

\* The notification connection drops while Watch blocks in WaitForNotification.
StreamDrop ==
    /\ ~crashed /\ pgConn = "ok" /\ lpc = "wait"
    /\ pgConn' = "lost"
    /\ UNCHANGED << build, crashed, lpc, produced, lmsg, hubVars, registryVars,
                    tasks, handlerVars, connState, historyVars >>

\* ------------------------------------------------------ client objects
\* &client{...} is a new object.  Objects that no map entry and no goroutine
\* refers to are garbage: their names are reused and their fields reset.
Live(cl, ts) == ({cl[c] : c \in Conns} \cup {t.obj : t \in ts}) \ {0}

NewClient(conn) ==
    IF conn \notin Live(clients, tasks) THEN conn
    ELSE CHOOSE o \in Objs \ Live(clients, tasks) :
             \A q \in Objs \ Live(clients, tasks) : o <= q

CanAllocate == Objs \ Live(clients, tasks) # {}

Collect(cl, ts, closing, flt) ==
    /\ isClosing' = [o \in Objs |-> IF o \in Live(cl, ts) THEN closing[o] ELSE FALSE]
    /\ filter' = [o \in Objs |-> IF o \in Live(cl, ts) THEN flt[o] ELSE AllTables]

\* ------------------------------------------------------------- the map
Keys(m) == {c \in Conns : m[c] # 0}
MapDelete(m, k) == [m EXCEPT ![k] = 0]
MapAssign(m, k, o) == [m EXCEPT ![k] = o]

\* The goroutines that stand at a write of s.clients, and the Hub when it
\* stands at the range loop over it.
MapWriters ==
    {<< "handler", c >> : c \in {x \in Conns : hpc[x] = "inserting"}}
      \cup {<< "task", t.n, t.conn >> : t \in {x \in tasks : x.pc = "failed"}}
MapReaders == IF HubRuns /\ lpc = "send" THEN {<< "hub" >>} ELSE {}

\* Two goroutines touch s.clients at once, one of them writing, with nothing
\* that orders them: the runtime may end the process ("concurrent map
\* writes", "concurrent map iteration and map write").  When it does not,
\* the two accesses take effect in either order.
MapRace ==
    /\ ~crashed
    /\ Cardinality(MapWriters) >= 2 \/ (MapWriters # {} /\ MapReaders # {})
    /\ crashed' = TRUE
    /\ UNCHANGED << build, listenerVars, hubVars, registryVars, tasks,
                    handlerVars, connState, historyVars >>

\* ----------------------------------------------------------------- Hub
\* case conn := <-s.register: s.clients[conn] = &client{}.
HubRegister(conn) ==
    /\ ~crashed /\ build = "server.go"
    /\ CanAllocate
    /\ clients' = MapAssign(clients, conn, NewClient(conn))
    /\ Collect(clients', tasks,
               [isClosing EXCEPT ![NewClient(conn)] = FALSE],
               [filter EXCEPT ![NewClient(conn)] = AllTables])
    /\ hubNoop' = FALSE
    /\ UNCHANGED << build, crashed, listenerVars, hubRecv, tasks, handlerVars,
                    connState, historyVars >>

\* Mutant: removing a key that is not in the map is a fault.
HubUnregister_strict(conn) ==
    /\ ~crashed /\ build = "server.go"
    /\ clients' = MapDelete(clients, conn)
    /\ Collect(clients', tasks, isClosing, filter)
    /\ hubNoop' = (clients[conn] = 0)
    /\ crashed' = (clients[conn] = 0)
    /\ UNCHANGED << build, listenerVars, hubRecv, tasks, handlerVars, connState,
                    historyVars >>

\* case conn := <-s.unregister: delete(s.clients, conn).
HubUnregister(conn) ==
    /\ ~crashed /\ build = "server.go"
    /\ clients' = MapDelete(clients, conn)
    /\ Collect(clients', tasks, isClosing, filter)
    /\ hubNoop' = (clients[conn] = 0)
    /\ UNCHANGED << build, crashed, listenerVars, hubRecv, tasks, handlerVars,
                    connState, historyVars >>

\* go func(conn, c) {...}(connection, cli): the goroutine starts, the loop goes on.
Spawn(n, conn, obj) == [n |-> n, conn |-> conn, obj |-> obj, pc |-> "lock"]

\* Mutant: the receive does not release the sender, Watch offers the same
\* message again.
HubBroadcast_noRendezvous ==
    /\ ~crashed /\ HubRuns /\ lpc = "send"
    /\ Len(hubRecv) < MaxNotifs
    /\ hubRecv' = Append(hubRecv, lmsg)
    /\ tasks' = tasks \cup {Spawn(Len(hubRecv'), c, clients[c]) : c \in Keys(clients)}
    /\ hubNoop' = FALSE
    /\ UNCHANGED << build, crashed, listenerVars, registryVars, handlerVars,
                    connState, historyVars >>

\* Mutant: the Hub keeps the messages it received and dispatches all of them
\* again with each new one.
HubBroadcast_replay ==
    /\ ~crashed /\ HubRuns /\ lpc = "send"
    /\ hubRecv' = Append(hubRecv, lmsg)
    /\ lpc' = "wait"
    /\ lmsg' = ZeroNotification
    /\ tasks' = tasks \cup {Spawn(n, c, clients[c]) :
                               n \in 1..Len(hubRecv'), c \in Keys(clients)}
    /\ hubNoop' = FALSE
    /\ UNCHANGED << build, crashed, pgConn, produced, registryVars, handlerVars,
                    connState, historyVars >>

\* case msg := <-s.broadcast and the range loop: one goroutine per entry of
\* s.clients.  The channel is unbuffered: Watch's send and this receive are
\* one step.
HubBroadcast ==
    /\ ~crashed /\ HubRuns /\ lpc = "send"
    /\ hubRecv' = Append(hubRecv, lmsg)
    /\ lpc' = "wait"
    /\ lmsg' = ZeroNotification
    /\ tasks' = tasks \cup {Spawn(Len(hubRecv'), c, clients[c]) : c \in Keys(clients)}
    /\ hubNoop' = FALSE
    /\ UNCHANGED << build, crashed, pgConn, produced, registryVars, handlerVars,
                    connState, historyVars >>

\* ------------------------------------------------- websocket handlers
\* allWsHandler, singleTableWsHandler, singleRowWsHandler: websocket.Accept.
HandlerAccept(conn, f) ==
    /\ ~crashed /\ build = "part_003" /\ hpc[conn] = "idle"
    /\ \/ /\ hpc' = [hpc EXCEPT ![conn] = "returned"]
          /\ UNCHANGED << hfilter, connState >>
       \/ /\ connState' = [connState EXCEPT ![conn] = "open"]
          /\ hfilter' = [hfilter EXCEPT ![conn] = f]
          /\ hpc' = [hpc EXCEPT ![conn] = "inserting"]
    /\ UNCHANGED << build, crashed, listenerVars, hubVars, registryVars, tasks,
                    historyVars >>

\* s.clients[socket] = &client{table: ..., id: ...}.
HandlerInsert(conn) ==
    /\ ~crashed /\ hpc[conn] = "inserting"
    /\ CanAllocate
    /\ clients' = MapAssign(clients, conn, NewClient(conn))
    /\ Collect(clients', tasks,
               [isClosing EXCEPT ![NewClient(conn)] = FALSE],
               [filter EXCEPT ![NewClient(conn)] = hfilter[conn]])
    /\ hpc' = [hpc EXCEPT ![conn] = "open"]
    /\ hfilter' = [hfilter EXCEPT ![conn] = AllTables]
    /\ UNCHANGED << build, crashed, listenerVars, hubVars, tasks, connState,
                    historyVars >>

\* The liveness loop ends (socketCtx.Done(), or a failed Ping), the handler
\* returns and its deferred socket.Close runs.  The map is left as it is.
HandlerReturn(conn) ==
    /\ ~crashed /\ hpc[conn] = "open"
    /\ hpc' = [hpc EXCEPT ![conn] = "returned"]
    /\ connState' = [connState EXCEPT ![conn] = "closed"]
    /\ UNCHANGED << build, crashed, listenerVars, hubVars, registryVars, tasks,
                    hfilter, historyVars >>

\* ------------------------------------------------ dispatch goroutines
Holding == {"write", "failed"}

\* client.mut: one mutex per client object.
MutexHeld(obj) == \E u \in tasks : u.obj = obj /\ u.pc \in Holding

Matches(c, msg) == TableOk(c, msg) /\ IdOk(c, msg)

\* c.mut.Lock(), the isClosing and filter checks, json.Marshal, and the call
\* of conn.Write; a return before the write unlocks.
TaskLock(t) ==
    /\ ~crashed /\ t \in tasks /\ t.pc = "lock"
    /\ ~MutexHeld(t.obj)
    /\ IF isClosing[t.obj]
         THEN tasks' = tasks \ {t} /\ UNCHANGED historyVars
         ELSE IF ~Matches(filter[t.obj], hubRecv[t.n])
           THEN /\ tasks' = tasks \ {t}
                /\ filtered' = [filtered EXCEPT ![t.conn] = @ \cup {t.n}]
                /\ UNCHANGED attempts
           ELSE /\ tasks' = (tasks \ {t}) \cup {[t EXCEPT !.pc = "write"]}
                /\ attempts' = [attempts EXCEPT ![t.conn] = Append(@, t.n)]
                /\ UNCHANGED filtered
    /\ Collect(clients, tasks', isClosing, filter)
    /\ UNCHANGED << build, crashed, listenerVars, hubVars, clients, handlerVars,
                    connState >>

\* conn.Write returns nil; the deferred Unlock runs.  A write that neither
\* returns nil nor fails (context.Background(), a peer that stopped reading)
\* is this goroutine taking no step.
TaskWriteOk(t) ==
    /\ ~crashed /\ t \in tasks /\ t.pc = "write"
    /\ connState[t.conn] = "open"
    /\ tasks' = tasks \ {t}
    /\ Collect(clients, tasks', isClosing, filter)
    /\ UNCHANGED << build, crashed, listenerVars, hubVars, clients, handlerVars,
                    connState, historyVars >>

\* conn.Write returns an error (the peer went away, the socket was closed):
\* c.isClosing = true.  server.go returns here.
TaskWriteFail(t) ==
    /\ ~crashed /\ t \in tasks /\ t.pc = "write"
    /\ tasks' = IF build = "server.go"
                  THEN tasks \ {t}
                  ELSE (tasks \ {t}) \cup {[t EXCEPT !.pc = "failed"]}
    /\ Collect(clients, tasks', [isClosing EXCEPT ![t.obj] = TRUE], filter)
    /\ UNCHANGED << build, crashed, listenerVars, hubVars, clients, handlerVars,
                    connState, historyVars >>

\* part_003: the "closing" write, connection.Close, delete(s.clients,
\* connection); the deferred Unlock runs.
TaskClose(t) ==
    /\ ~crashed /\ t \in tasks /\ t.pc = "failed"
    /\ connState' = [connState EXCEPT ![t.conn] = "closed"]
    /\ clients' = MapDelete(clients, t.conn)
    /\ tasks' = tasks \ {t}
    /\ Collect(clients', tasks', isClosing, filter)
    /\ UNCHANGED << build, crashed, listenerVars, hubVars, handlerVars,
                    historyVars >>

\* ------------------------------------------------------- specification
Next ==
    \/ WatchAcquire
    \/ WatchListen
    \/ WatchWait
    \/ WatchSleep
    \/ StreamDrop
    \/ \E conn \in Conns : HubRegister(conn)
    \/ \E conn \in Conns : HubUnregister(conn)
    \/ HubBroadcast
    \/ MapRace
    \/ \E conn \in Conns, f \in Filters : HandlerAccept(conn, f)
    \/ \E conn \in Conns : HandlerInsert(conn)
    \/ \E conn \in Conns : HandlerReturn(conn)
    \/ \E t \in tasks : TaskLock(t)
    \/ \E t \in tasks : TaskWriteOk(t)
    \/ \E t \in tasks : TaskWriteFail(t)
    \/ \E t \in tasks : TaskClose(t)

Spec == Init /\ [][Next]_vars

\* The goroutines the Go scheduler runs whenever they can run: Watch, the Hub,
\* a dispatch goroutine waiting for its mutex or cleaning up after a failed
\* write, a handler at its map write.  Nothing is assumed of the network
\* (accepts, returns of conn.Write, the notification stream) nor of the
\* senders on register and unregister.
Fairness ==
    /\ WF_vars(WatchAcquire)
    /\ WF_vars(WatchListen)
    /\ WF_vars(WatchWait)
    /\ WF_vars(WatchSleep)
    /\ WF_vars(HubBroadcast)
    /\ WF_vars(\E conn \in Conns : HandlerInsert(conn))
    /\ WF_vars(\E t \in tasks : TaskLock(t))
    /\ WF_vars(\E t \in tasks : TaskClose(t))

LiveSpec == Spec /\ Fairness

\* ---------------------------------------------------------------- claims
Increasing(s) == \A i, j \in 1..Len(s) : i < j => s[i] < s[j]

\* C1: a subscriber whose write failed while event N was dispatched is out
\* of the Registry when the Hub takes event N+1: whenever the Hub receives an
\* event, no registered subscriber is closing.
C1_EvictedBeforeNextEvent ==
    [][Len(hubRecv') > Len(hubRecv)
         => \A c \in Conns : clients[c] # 0 => ~isClosing[clients[c]]]_vars

\* C2: while a write to subscriber A is outstanding (blocked, or failed and
\* being cleaned up) and no handler is at the Registry, the Hub can take the
\* event Watch offers, and every dispatch goroutine of another subscriber B
\* can lock B's guard and complete its write.
C2_FailureIsolation ==
    \A a \in tasks :
      (a.pc \in Holding /\ \A c \in Conns : hpc[c] # "inserting") =>
        /\ lpc = "send" => ENABLED HubBroadcast
        /\ \A b \in tasks :
             (/\ b.conn # a.conn /\ b.pc = "lock"
              /\ ~\E u \in tasks : u.conn = b.conn /\ u.pc \in Holding)
               => ENABLED TaskLock(b)
        /\ \A b \in tasks :
             (b.conn # a.conn /\ b.pc = "write" /\ connState[b.conn] = "open")
               => ENABLED TaskWriteOk(b)

\* C3: the writes to an AllTables subscriber happen in stream order.
C3_AllTablesInOrder ==
    \A c \in Conns :
      (clients[c] # 0 /\ filter[clients[c]] = AllTables) => Increasing(attempts[c])

\* C4: for a registered subscriber with filter Table(t), every write that
\* began carries an event of table t, and every event its dispatch goroutine
\* skipped by filter is of another table.
C4_TableFilter ==
    \A c \in Conns :
      LET f == filter[clients[c]] IN
      (clients[c] # 0 /\ f.table # "" /\ f.id = "") =>
        /\ \A i \in 1..Len(attempts[c]) : hubRecv[attempts[c][i]].Table = f.table
        /\ \A n \in filtered[c] : hubRecv[n].Table # f.table

C4_Witness ==
    \E c \in Conns :
      /\ clients[c] # 0
      /\ filter[clients[c]].table = "orders" /\ filter[clients[c]].id = ""
      /\ attempts[c] # << >>
      /\ filtered[c] # {}

\* C5: for a registered subscriber with filter TableAndRow(t, r), every
\* write that began carries an event of table t whose row id is present and
\* equal to r, and every event skipped by filter is of another table, of
\* another row id, or without row id.
C5_RowFilter ==
    \A c \in Conns :
      LET f == filter[clients[c]] IN
      (clients[c] # 0 /\ f.table # "" /\ f.id # "") =>
        /\ \A i \in 1..Len(attempts[c]) :
             LET e == hubRecv[attempts[c][i]] IN
             e.Table = f.table /\ e.ID # "" /\ e.ID = f.id
        /\ \A n \in filtered[c] :
             ~(hubRecv[n].Table = f.table /\ hubRecv[n].ID = f.id)

C5_Witness ==
    \E c \in Conns :
      /\ clients[c] # 0
      /\ filter[clients[c]].id # ""
      /\ attempts[c] # << >>
      /\ \E n \in filtered[c] : hubRecv[n].Table = filter[clients[c]].table

\* C6: once a subscriber's transport is closed, no event the Hub processes
\* starts a dispatch goroutine for that connection.
C6_NoDispatchAfterClose ==
    [][\A c \in Conns :
         connState[c] = "closed" => ~\E t \in tasks' \ tasks : t.conn = c]_vars

\* C7: the Hub handling unregister(id) for an id that is not in the Registry
\* leaves the Registry as it was and the process running.
C7_UnregisterIdempotent ==
    [][\A c \in Conns :
         (HubUnregister(c) /\ clients[c] = 0)
           => (clients' = clients /\ ~crashed' /\ UNCHANGED << isClosing, tasks >>)]_vars

C7_Witness == hubNoop /\ ~crashed /\ \E c \in Conns : clients[c] # 0

\* C8: every event the Hub receives has an operation among insert, update and
\* delete, a table that is not empty, and its data.
Operations == {"insert", "update", "delete"}

C8_OnlyValidEventsReachHub ==
    \A i \in 1..Len(hubRecv) :
      /\ hubRecv[i].Operation \in Operations
      /\ hubRecv[i].Table # ""
      /\ hubRecv[i].Data # "nil"

\* C9: after the notification connection is lost, Watch gets a connection
\* that works again.
C9_StreamRecovery == (pgConn = "lost") ~> (pgConn = "ok")

\* C10: what the Hub has received, followed by the event Watch is handing
\* over, is exactly the notifications that decoded, in stream order.
Decoded(s) ==
    LET ok == SelectSeq(s, LAMBDA p : ~UnmarshalFails(p))
    IN [i \in 1..Len(ok) |-> Unmarshal(ok[i])]

C10_ListenerHubOrder ==
    Decoded(produced) = IF lpc = "send" THEN Append(hubRecv, lmsg) ELSE hubRecv

C10_Witness == Len(hubRecv) = 2 /\ hubRecv[1] # hubRecv[2]

\* C11: a failure of Watch to acquire its connection, or to issue LISTEN,
\* leaves the process running: no step of these two leaves it ended.
C11_SubscriptionFailureNotFatal ==
    [][(WatchAcquire \/ WatchListen) => ~crashed']_vars

\* C12: the Registry changes only in a step of the Hub handling a register or
\* an unregister input, and no goroutine stands at a write of the Registry
\* while the Hub ranges over it.
C12_SingleWriterRegistry ==
    [][/\ clients' # clients
          => \E c \in Conns : HubRegister(c) \/ HubUnregister(c)
       /\ ~(MapWriters # {} /\ MapReaders # {})]_vars

\* C13: once a client's isClosing is true, no dispatch goroutine of that
\* client is inside conn.Write, none begins one, and none takes the step that
\* writes "closing" on the connection.
C13_ClosingNeverWritten ==
    [][\A t \in tasks :
         isClosing[t.obj] =>
           /\ t.pc # "write"
           /\ [t EXCEPT !.pc = "write"] \notin tasks' \ tasks
           /\ ~TaskClose(t)]_vars

C15_OneOutstandingTask ==
    \A a, b \in tasks : a.conn = b.conn => a = b

\* C16: the closing flag of a connection that stays in the Registry never goes
\* back from true to false, a new registration of the same connection
\* included.
C16_ClosingMonotone ==
    [][\A c \in Conns :
         (clients[c] # 0 /\ isClosing[clients[c]] /\ clients'[c] # 0)
           => isClosing'[clients'[c]]]_vars

\* C17: the step in which Watch takes a payload that fails to decode sends
\* nothing, keeps the connection and the process, and leaves the Registry, the
\* closing flags and the dispatch goroutines as they were; in every state,
\* each well-formed notification that came after a failed one has been
\* received by the Hub or is the one Watch is handing over.
Delivered == IF lpc = "send" THEN Append(hubRecv, lmsg) ELSE hubRecv

C17_DecodeErrorsContained ==
    [][/\ (Len(produced') > Len(produced) /\ UnmarshalFails(produced'[Len(produced')]))
          => /\ lpc' = "sleep" /\ pgConn' = "ok" /\ ~crashed'
             /\ UNCHANGED << hubRecv, lmsg, clients, isClosing, tasks >>
       /\ \A i, j \in 1..Len(produced) :
            (i < j /\ UnmarshalFails(produced[i]) /\ ~UnmarshalFails(produced[j]))
              => \E k \in 1..Len(Delivered) : Delivered[k] = Unmarshal(produced[j])]_vars

C17_Witness ==
    /\ Len(produced) = 2 /\ UnmarshalFails(produced[1])
    /\ hubRecv = << Unmarshal(produced[2]) >>
    /\ \E c \in Conns : clients[c] # 0

\* C18: while the process runs, the dispatch goroutines that were started all
\* finish: no goroutine stays in conn.Write, or behind it at the mutex, for
\* ever.
C18_DispatchTerminates == (tasks # {}) ~> (tasks = {} \/ crashed)

\* C19: a dispatch goroutine starts only in the step in which the Hub receives
\* a message, for that message and for a connection that is in the Registry
\* in that step; a write begins only in a step of a goroutine so started, with
\* the message it was started for.
TaskIds(ts) == {<< t.n, t.conn >> : t \in ts}

C19_NoRetentionNoReplay ==
    [][/\ \A t \in tasks' :
            << t.n, t.conn >> \notin TaskIds(tasks)
              => /\ Len(hubRecv') = Len(hubRecv) + 1
                 /\ t.n = Len(hubRecv')
                 /\ clients[t.conn] # 0 /\ t.obj = clients[t.conn]
                 /\ t.pc = "lock"
       /\ \A c \in Conns :
            attempts'[c] # attempts[c]
              => \E t \in tasks :
                    /\ t.conn = c /\ t.pc = "lock"
                    /\ attempts'[c] = Append(attempts[c], t.n)]_vars

\* A connection that came into the Registry after message 1 was dispatched
\* has been written message 2 alone, while another was written both.
C19_Witness ==
    /\ Len(hubRecv) = 2
    /\ \E c, d \in Conns :
          /\ clients[c] # 0 /\ ~isClosing[clients[c]]
          /\ filter[clients[c]] = AllTables /\ filtered[c] = {}
          /\ attempts[c] = << 2 >>
          /\ \A t \in tasks : t.conn # c
          /\ 1 \in {attempts[d][i] : i \in 1..Len(attempts[d])}

\* C20: while Watch blocks in ch <- dbNotification it takes no further
\* notification and keeps the message; the Hub receives only the message
\* Watch is sending, and that receive is what lets Watch go on, so each
\* message is received once; where no Hub runs, Watch stays at its first send
\* and nothing is received.
C20_SynchronousHandOff ==
    [][/\ lpc = "send"
          => /\ produced' = produced
             /\ lpc' = "send" => (lmsg' = lmsg /\ hubRecv' = hubRecv)
             /\ lpc' # "send" => (HubRuns /\ hubRecv' = Append(hubRecv, lmsg))
       /\ hubRecv' # hubRecv
          => (lpc = "send" /\ lpc' = "wait" /\ hubRecv' = Append(hubRecv, lmsg))
       /\ ~HubRuns => (hubRecv = << >> /\ Len(Decoded(produced)) <= 1)]_vars

C20_Witness ==
    /\ Len(hubRecv) = 1 /\ hubRecv[1] = Unmarshal(produced[1])
    /\ lpc = "send" /\ lmsg = Unmarshal(produced[2]) /\ lmsg # hubRecv[1]

====
